---- MODULE Spec2Model ----
(***************************************************************************)
(* Access-code redemption of Eliv8-Sports: the three client flows that     *)
(* consume an access code (athlete Join Team page, coach Join Organization *)
(* page, sign-up with a code) running against the tables, uniqueness       *)
(* constraints and the on_access_code_used trigger of the schema.          *)
(*                                                                         *)
(* Every await of a handler is one atomic step of the data service, so     *)
(* handlers of different users interleave between their awaits.            *)
(* Row-level-security policies are not modelled: every statement the       *)
(* application issues is taken to reach the table.  Columns the client     *)
(* reads or writes (access_codes.coach_id, coach_athletes.gender) are      *)
(* taken to exist.  Lookups answer; writes may fail transiently.           *)
(***************************************************************************)
EXTENDS Integers, FiniteSets, Sequences, Bags, TLC

NULL == "NULL"

\* Bound on the number of user gestures (opening a page, Verify, Join, Submit,
\* Sign Up).
MaxRuns == 4

\* The people at a browser.  a1 has an account with role athlete or coach;
\* a2 has one or is yet to sign up.
Users == {"a1", "a2"}

\* Texts a user can type into a code input: nothing, the two issued codes,
\* a code followed by a blank, and a text that matches no row.
InputTexts == {"", "K1", "K2", "K2 ", "ZZ"}
CodeTexts == {"K1", "K2"}

Pages == {"athlete", "coach", "signup"}

\* The messages the handlers show.
ErrEnterCode == "Please enter an access code"
ErrInvalid == "Invalid access code"
ErrUsed == "This code has already been used"
ErrType == "Invalid code type"
ErrConnected == "You are already connected to this team"
ErrJoin == "Failed to join team"
ErrInvalidOrExpired == "Invalid or expired access code"
ErrNotCoach == "This code is not valid for coaches"
ErrOccurred == "An error occurred"

VARIABLES
    access_codes,    \* code text -> row of access_codes (code is UNIQUE)
    coach_athletes,  \* bag of coach_athletes rows
    user_sports,     \* bag of user_sports rows
    profiles,        \* user -> [exists, role, organization_id]
    now,             \* the data service's clock: new Date() of the next write
    page,            \* user -> the page the user has open
    code,            \* user -> text of the page's code input
    error,           \* user -> the page's error message, or NULL
    codeDetails,     \* user -> athlete page: details shown after Verify
    row,             \* user -> the row a running handler fetched
    pc,              \* user -> position of the running handler, or "idle"
    landed,          \* user -> route a handler navigated to on success, or NULL
    users,           \* auth.users: the identities that exist
    runs,            \* user -> number of gestures so far
    cause,           \* user -> why the handler's last write failed
    first_used_by,   \* code text -> the user whose update found used_by NULL
    step_ok,         \* <<user, text, code, page>>: code-update steps on text
                     \* that went through, by a user on page whose validation
                     \* had passed code
    boot,            \* user -> what the last run of handle_new_user did
    selectedSports,  \* user -> settings page: the sports shown as selected
    store,           \* user -> the auth store of the user's browser
    setting,         \* user -> the roles whose setRole awaits its update
    session,         \* the user of the browser's auth session, or NULL
    tasks,           \* the awaits in flight of the store and the auth client
    location,        \* the path the router is at
    view,            \* the element the router rendered last
    checked,         \* a mounted ProtectedRoute component and its outcome
    authListenerInitialized,  \* the flag of initializeAuthListener
    subscriptions,   \* the auth-state listeners registered
    cleanups,        \* the cleanup functions returned and not yet run
    registered,      \* how many listeners were ever registered
    isOpen,          \* useConfirmation: the dialog is open
    resolve,         \* useConfirmation: the promise the kept resolver settles
    promises         \* useConfirmation: the promises confirm() has returned

vars == <<access_codes, coach_athletes, user_sports, profiles, now, page, code,
          error, codeDetails, row, pc, landed, users, runs, cause,
          first_used_by, step_ok, boot, selectedSports, store, setting, session, tasks,
          location, view, checked, authListenerInitialized, subscriptions,
          cleanups, registered, isOpen, resolve, promises>>

\* The state of the useConfirmation hook of a page.
hook == <<isOpen, resolve, promises>>

\* The router and the auth client of the browser.
shell == <<session, tasks, location, view, checked,
           authListenerInitialized, subscriptions, cleanups, registered,
           hook>>

\* The state of the browser outside the pages of the redemption flows.
client == <<store, setting, shell>>

\* The state of the pages of the redemption flows.
flows == <<access_codes, coach_athletes, user_sports, now, page, code, error,
           codeDetails, row, pc, landed, users, cause, first_used_by,
           step_ok, boot, selectedSports, hook>>

db == <<access_codes, coach_athletes, user_sports, profiles>>

(***************************************************************************)
(* Rows                                                                    *)
(***************************************************************************)

\* access_codes row as issued: used_at = 0 stands for NULL.
CodeRow(role, org, sport, gender, creator, coach) ==
    [role |-> role, organization_id |-> org, sport_id |-> sport,
     gender |-> gender, created_by |-> creator, coach_id |-> coach,
     used_at |-> 0, used_by |-> NULL]

\* The rows code K1 can be: an athlete code with coach_id naming the issuer,
\* an athlete code whose coach_id was never written, and a coach code.
K1Rows ==
    { CodeRow("athlete", "O1", "S1", "female", "c1", "c1"),
      CodeRow("athlete", "O1", "S1", "female", "c1", NULL),
      CodeRow("coach", "O1", NULL, NULL, "adm", NULL) }

\* The row of code K2: a coach code with a sport.
K2Rows ==
    { CodeRow("coach", "O2", "S2", NULL, "adm", NULL) }

NoRow == [code |-> NULL, role |-> NULL, organization_id |-> NULL,
          sport_id |-> NULL, gender |-> NULL, created_by |-> NULL,
          coach_id |-> NULL, used_at |-> 0, used_by |-> NULL]

NoDetails == [code |-> NULL, sport_id |-> NULL, coach_id |-> NULL,
              organization_id |-> NULL, gender |-> NULL]

\* The auth store as created: user, role, organizationId, loading, initialized.
NoStore == [user |-> NULL, role |-> NULL, organizationId |-> NULL,
            loading |-> TRUE, initialized |-> FALSE]

\* The auth store of a signed-in user u after checkSession.
SignedIn(u, role, org) ==
    [user |-> u, role |-> role, organizationId |-> org,
     loading |-> FALSE, initialized |-> TRUE]

\* The auth store after checkSession found no session.
SignedOut == [NoStore EXCEPT !.loading = FALSE, !.initialized = TRUE]

NoProfile == [exists |-> FALSE, role |-> NULL, organization_id |-> NULL,
              full_name |-> NULL]

\* String.prototype.trim on the texts of InputTexts.
Trim(s) == IF s = "K2 " THEN "K2" ELSE s

\* .from('access_codes').select(...).eq('code', t).single()
Fetched(t) ==
    [code |-> t, role |-> access_codes[t].role,
     organization_id |-> access_codes[t].organization_id,
     sport_id |-> access_codes[t].sport_id,
     gender |-> access_codes[t].gender,
     created_by |-> access_codes[t].created_by,
     coach_id |-> access_codes[t].coach_id,
     used_at |-> access_codes[t].used_at,
     used_by |-> access_codes[t].used_by]

(***************************************************************************)
(* Tables: constraints and triggers                                        *)
(***************************************************************************)

CoachAthleteKey(r) == <<r.coach_id, r.athlete_id, r.sport_id, r.organization_id>>

UserSportKey(r) == <<r.user_id, r.sport_id, r.organization_id>>

\* NOT NULL columns of coach_athletes.
CoachAthleteNotNull(r) ==
    /\ r.coach_id # NULL
    /\ r.athlete_id # NULL
    /\ r.sport_id # NULL
    /\ r.organization_id # NULL

\* Mutant: coach_athletes without its uniqueness constraint.
CoachAthleteConflictOff(ca, r) == FALSE

\* UNIQUE(coach_id, athlete_id, sport_id, organization_id)
CoachAthleteConflict(ca, r) ==
    \E x \in BagToSet(ca) : CoachAthleteKey(x) = CoachAthleteKey(r)

\* Mutant: user_sports without its uniqueness constraint.
UserSportConflictOff(us, r) == FALSE

\* UNIQUE(user_id, sport_id, organization_id); NULLs never conflict.
UserSportConflict(us, r) ==
    /\ r.user_id # NULL /\ r.sport_id # NULL /\ r.organization_id # NULL
    /\ \E x \in BagToSet(us) : UserSportKey(x) = UserSportKey(r)

\* INSERT INTO coach_athletes: [err, rows]
InsertCoachAthlete(ca, r) ==
    IF ~CoachAthleteNotNull(r) THEN [err |-> "not_null", rows |-> ca]
    ELSE IF CoachAthleteConflict(ca, r) THEN [err |-> "duplicate", rows |-> ca]
    ELSE [err |-> "none", rows |-> ca (+) SetToBag({r})]

\* INSERT INTO user_sports: [err, rows]
InsertUserSport(us, r) ==
    IF UserSportConflict(us, r) THEN [err |-> "duplicate", rows |-> us]
    ELSE [err |-> "none", rows |-> us (+) SetToBag({r})]

\* handle_athlete_access_code: the row the trigger links.
TriggerRow(new) ==
    [coach_id |-> new.created_by, athlete_id |-> new.used_by,
     sport_id |-> new.sport_id, organization_id |-> new.organization_id,
     gender |-> NULL]

\* on_access_code_used + handle_athlete_access_code, AFTER UPDATE FOR EACH ROW:
\* [err, rows].  INSERT ... ON CONFLICT DO NOTHING.
OnAccessCodeUsed(ca, old, new) ==
    IF old.used_by = NULL /\ new.used_by # NULL /\ new.role = "athlete"
    THEN IF ~CoachAthleteNotNull(TriggerRow(new))
         THEN [err |-> "not_null", rows |-> ca]
         ELSE IF CoachAthleteConflict(ca, TriggerRow(new))
              THEN [err |-> "none", rows |-> ca]
              ELSE [err |-> "none", rows |-> ca (+) SetToBag({TriggerRow(new)})]
    ELSE [err |-> "none", rows |-> ca]

\* The WHERE clause of the clients' update of access_codes: .eq('code', t)
UpdateMatches(ac, t) == t \in DOMAIN ac

\* Mutant: the update without its WHERE clause.
UpdateAccessCodeAll(ac, ca, t, u, at) ==
    [err |-> "none",
     ac |-> [k \in DOMAIN ac |-> [ac[k] EXCEPT !.used_at = at, !.used_by = u]],
     ca |-> ca]

\* .from('access_codes').update({used_at, used_by}).eq('code', t) with its
\* trigger, as one statement: [err, ac, ca].  A trigger error undoes the update.
UpdateAccessCode(ac, ca, t, u, at) ==
    IF ~UpdateMatches(ac, t) THEN [err |-> "none", ac |-> ac, ca |-> ca]
    ELSE LET new == [ac[t] EXCEPT !.used_at = at, !.used_by = u]
             trg == OnAccessCodeUsed(ca, ac[t], new)
         IN  IF trg.err # "none" THEN [err |-> trg.err, ac |-> ac, ca |-> ca]
             ELSE [err |-> "none", ac |-> [ac EXCEPT ![t] = new], ca |-> trg.rows]

(***************************************************************************)
(* Profile bootstrap: handle_new_user                                      *)
(***************************************************************************)

\* _max_retries int := 3
max_retries == 3

\* Inputs of the trigger: raw_user_meta_data->>'full_name' ("" is a blank
\* name), new.email, and the outcome of every insert it may attempt.
MetaNames == {"Ann", "", NULL}
Emails == {"ann@x", NULL}
InsertOutcomes ==
    [primary : [1..(max_retries + 1) -> BOOLEAN], fallback : BOOLEAN]

\* What a run of handle_new_user did: calls counts the runs for the identity.
NoBoot == [calls |-> 0, found |-> FALSE, attempts |-> 0, fallbacks |-> 0,
           success_at |-> 0, fallback_ok |-> FALSE, raised |-> FALSE]

\* _full_name: the trimmed meta name, else the email, else 'New User'.
FullNameOf(meta, email) ==
    IF meta # NULL /\ meta # "" THEN meta
    ELSE IF email # NULL THEN email
    ELSE "New User"

\* The row handle_new_user inserts: role 'athlete', no organization.
ProfileRow(name) ==
    [exists |-> TRUE, role |-> "athlete", organization_id |-> NULL,
     full_name |-> name]

\* INSERT INTO profiles (id is the PRIMARY KEY): [err, pr].
InsertProfile(pr, u, r, fails) ==
    IF fails THEN [err |-> "transient", pr |-> pr]
    ELSE IF pr[u].exists THEN [err |-> "duplicate", pr |-> pr]
    ELSE [err |-> "none", pr |-> [pr EXCEPT ![u] = r]]

\* Mutant: an exception handler that gives up without the final attempt.
OnInsertErrorNoFallback(st, u, out) ==
    [st EXCEPT !.retry_count = st.retry_count + 1]

\* EXCEPTION WHEN others of the retry loop: count the failure; on the last one
\* make the final attempt with minimal data, whose own failure is only logged.
OnInsertError(st, u, out) ==
    LET n == st.retry_count + 1
        fb == InsertProfile(st.pr, u, ProfileRow("New User"), out.fallback)
    IN  IF n = max_retries
        THEN [st EXCEPT !.retry_count = n, !.fallbacks = @ + 1,
                        !.fallback_ok = (fb.err = "none"), !.pr = fb.pr]
        ELSE [st EXCEPT !.retry_count = n]

\* Mutant: a loop that runs while _retry_count <= _max_retries.
RECURSIVE RetryLoopOneMore(_, _, _, _)
RetryLoopOneMore(st, u, name, out) ==
    IF st.retry_count <= max_retries /\ ~st.success
    THEN LET ins == InsertProfile(st.pr, u, ProfileRow(name),
                                  out.primary[st.attempts + 1])
             tried == [st EXCEPT !.attempts = @ + 1]
         IN  IF ins.err = "none"
             THEN RetryLoopOneMore([tried EXCEPT !.pr = ins.pr,
                                                 !.success = TRUE,
                                                 !.success_at = tried.attempts],
                                   u, name, out)
             ELSE RetryLoopOneMore(OnInsertError(tried, u, out), u, name, out)
    ELSE st

\* WHILE _retry_count < _max_retries AND NOT _success LOOP ... END LOOP
RECURSIVE RetryLoop(_, _, _, _)
RetryLoop(st, u, name, out) ==
    IF st.retry_count < max_retries /\ ~st.success
    THEN LET ins == InsertProfile(st.pr, u, ProfileRow(name),
                                  out.primary[st.attempts + 1])
             tried == [st EXCEPT !.attempts = @ + 1]
         IN  IF ins.err = "none"
             THEN RetryLoop([tried EXCEPT !.pr = ins.pr, !.success = TRUE,
                                          !.success_at = tried.attempts],
                            u, name, out)
             ELSE RetryLoop(OnInsertError(tried, u, out), u, name, out)
    ELSE st

\* The loop state handle_new_user starts from.
LoopStart(pr) ==
    [pr |-> pr, retry_count |-> 0, success |-> FALSE, attempts |-> 0,
     fallbacks |-> 0, success_at |-> 0, fallback_ok |-> FALSE]

\* What handle_new_user reports after its loop ended in st.
BootOf(st, calls) ==
    [calls |-> calls + 1, found |-> FALSE, attempts |-> st.attempts,
     fallbacks |-> st.fallbacks, success_at |-> st.success_at,
     fallback_ok |-> st.fallback_ok, raised |-> FALSE]

\* Mutant: handle_new_user without its check for an existing profile.
HandleNewUserNoFoundCheck(pr, id, meta, email, out, calls) ==
    LET st == RetryLoop(LoopStart(pr), id, FullNameOf(meta, email), out)
    IN  [pr |-> st.pr, boot |-> BootOf(st, calls)]

\* Mutant: handle_new_user whose final attempt raises its failure.
HandleNewUserRaising(pr, id, meta, email, out, calls) ==
    LET st == RetryLoop(LoopStart(pr), id, FullNameOf(meta, email), out)
    IN  IF pr[id].exists
        THEN [pr |-> pr,
              boot |-> [NoBoot EXCEPT !.calls = calls + 1, !.found = TRUE]]
        ELSE [pr |-> st.pr,
              boot |-> [BootOf(st, calls) EXCEPT
                           !.raised = (st.fallbacks > 0 /\ ~st.fallback_ok)]]

\* The body of handle_new_user for new.id = id: [pr, boot].
HandleNewUser(pr, id, meta, email, out, calls) ==
    IF id = NULL
    THEN [pr |-> pr, boot |-> [NoBoot EXCEPT !.calls = calls + 1, !.raised = TRUE]]
    ELSE IF pr[id].exists
    THEN [pr |-> pr, boot |-> [NoBoot EXCEPT !.calls = calls + 1, !.found = TRUE]]
    ELSE LET st == RetryLoop(LoopStart(pr), id, FullNameOf(meta, email), out)
         IN  [pr |-> st.pr, boot |-> BootOf(st, calls)]

\* confirm() calls in one run of the specification.
MaxConfirms == 4

\* useConfirmation as first rendered: the dialog closed, no resolver kept
\* (0), no promise returned yet.
HookInit ==
    /\ isOpen = FALSE
    /\ resolve = 0
    /\ promises = [p \in 1..MaxConfirms |-> "none"]

\* No ProtectedRoute component is mounted.
Unmounted == [requiredRole |-> NULL, children |-> NULL, isLoading |-> TRUE,
              deps |-> "unrun"]

\* The browser shell as loaded: at the home page, no session restored, no
\* listener registered.
ShellInit ==
    /\ HookInit
    /\ checked = Unmounted
    /\ session = NULL
    /\ tasks = {}
    /\ location = "/"
    /\ view = "none"
    /\ authListenerInitialized = FALSE
    /\ subscriptions = {}
    /\ cleanups = {}
    /\ registered = 0

(***************************************************************************)
(* Auth store: useAuthStore                                                *)
(***************************************************************************)

\* role: 'admin' | 'coach' | 'athlete' | null
StoreRoles == {NULL, "admin", "coach", "athlete"}

\* role text CHECK (role IS NULL OR role IN ('admin', 'coach', 'athlete'))
ProfileRoleCheck(role) == role \in {NULL, "admin", "coach", "athlete"}

\* setUser(user)
SetUser(st, user) ==
    IF user = NULL
    THEN [st EXCEPT !.user = NULL, !.role = NULL, !.organizationId = NULL,
                    !.loading = FALSE]
    ELSE IF user = st.user THEN st
    ELSE [st EXCEPT !.user = user, !.loading = FALSE]

\* setRole(role) awaits the update of the profile when the role differs from
\* the store's and the store holds a user.
SetRoleAwaits(st, role) == role # st.role /\ st.user # NULL

\* setRole(role) up to its await, or to its end when it does not await.
SetRoleCall(st, role) ==
    IF role = st.role THEN st
    ELSE IF st.user # NULL THEN [st EXCEPT !.loading = TRUE]
    ELSE [st EXCEPT !.role = role, !.loading = FALSE]

\* The roles in flight after setRole(role) was called on store st.
SetRoleQueue(q, st, role) ==
    IF SetRoleAwaits(st, role) THEN q \cup {role} ELSE q

\* setOrganizationId(orgId)
SetOrganizationId(st, org) == [st EXCEPT !.organizationId = org]

\* Mutant: an update that writes the route of the role, unchecked.
UpdateProfileRoleRoute(pr, u, role) ==
    [err |-> "none", pr |-> [pr EXCEPT ![u].role = "/" \o role]]

\* .from('profiles').update({role}).eq('id', u): [err, pr]
UpdateProfileRole(pr, u, role) ==
    IF ~pr[u].exists THEN [err |-> "none", pr |-> pr]
    ELSE IF ~ProfileRoleCheck(role) THEN [err |-> "check", pr |-> pr]
    ELSE [err |-> "none", pr |-> [pr EXCEPT ![u].role = role]]

\* setRole after its await: the update answered for role.
SetRoleDone(u, role) ==
    /\ role \in setting[u]
    /\ setting' = [setting EXCEPT ![u] = @ \ {role}]
    /\ \E lost \in BOOLEAN :
         LET res == IF lost THEN [err |-> "transient", pr |-> profiles]
                    ELSE UpdateProfileRole(profiles, u, role)
         IN  /\ profiles' = res.pr
             /\ store' = [store EXCEPT ![u] =
                    IF res.err # "none" THEN [@ EXCEPT !.loading = FALSE]
                    ELSE [@ EXCEPT !.role = role, !.loading = FALSE]]
    /\ UNCHANGED <<access_codes, coach_athletes, user_sports, now, page, code,
                   error, codeDetails, row, pc, landed, users, runs, cause,
                   first_used_by, step_ok, boot, selectedSports, shell>>

\* A component calls setRole(role) in the browser of u.
CallSetRole(u, st, role) ==
    /\ store' = [store EXCEPT ![u] = SetRoleCall(st, role)]
    /\ setting' = [setting EXCEPT ![u] = SetRoleQueue(@, st, role)]

(***************************************************************************)
(* Initial state                                                           *)
(***************************************************************************)

\* The state after construction, with code K1 being one of k1rows.
InitWith(k1rows) ==
    /\ \E k1 \in k1rows, k2 \in K2Rows :
           access_codes = [t \in CodeTexts |-> IF t = "K1" THEN k1 ELSE k2]
    /\ coach_athletes = EmptyBag
    /\ user_sports = EmptyBag
    /\ users \in {{"a1"}, {"a1", "a2"}}
    /\ \E r \in [Users -> {"athlete", "coach"}] :
           /\ r["a2"] = "coach" => "a2" \in users
           /\ profiles = [u \in Users |->
                             IF u \in users
                             THEN [exists |-> TRUE, role |-> r[u],
                                   organization_id |-> NULL,
                                   full_name |-> "Ann"]
                             ELSE NoProfile]
           /\ page = [u \in Users |-> IF u \in users THEN r[u] ELSE "signup"]
           /\ store = [u \in Users |-> IF u \in users
                                       THEN SignedIn(u, r[u], NULL)
                                       ELSE SignedOut]
    /\ setting = [u \in Users |-> {}]
    /\ ShellInit
    /\ now = 1
    /\ code = [u \in Users |-> ""]
    /\ error = [u \in Users |-> NULL]
    /\ codeDetails = [u \in Users |-> NoDetails]
    /\ row = [u \in Users |-> NoRow]
    /\ pc = [u \in Users |-> "idle"]
    /\ landed = [u \in Users |-> NULL]
    /\ runs = [u \in Users |-> 0]
    /\ cause = [u \in Users |-> "none"]
    /\ first_used_by = [t \in CodeTexts |-> NULL]
    /\ step_ok = {}
    /\ boot = [u \in Users |-> NoBoot]
    /\ selectedSports = [u \in Users |-> {}]

Init == InitWith(K1Rows)

(***************************************************************************)
(* Page state                                                              *)
(***************************************************************************)

\* Gestures made so far, and one more by u.
Gestures == runs["a1"] + runs["a2"]

Gesture(u) == runs' = [runs EXCEPT ![u] = @ + 1]

\* A page component mounts with its useState defaults.
Mounted(u, p) ==
    /\ page' = [page EXCEPT ![u] = p]
    /\ code' = [code EXCEPT ![u] = ""]
    /\ error' = [error EXCEPT ![u] = NULL]
    /\ codeDetails' = [codeDetails EXCEPT ![u] = NoDetails]

\* The user opens another page: ProtectedRoute lets a signed-in user into the
\* pages of the profile's role; sign-up is for identities without an account.
Navigate(u, p) ==
    /\ pc[u] = "idle" /\ Gestures < MaxRuns
    /\ p # page[u]
    /\ u \in users
    /\ p # "signup"
    /\ profiles[u].role = p
    /\ Gesture(u)
    /\ Mounted(u, p)
    /\ UNCHANGED <<db, now, row, pc, landed, users, cause, first_used_by,
                   step_ok, boot, selectedSports, client>>

\* onChange of the code input, setCode(e.target.value): the text t is in the
\* input when the user clicks.
Typed(u, t) == code' = [code EXCEPT ![u] = t]

\* A handler ends in its catch block with message m; why is the store's reason.
Fails(u, m, why) ==
    /\ error' = [error EXCEPT ![u] = m]
    /\ cause' = [cause EXCEPT ![u] = why]
    /\ pc' = [pc EXCEPT ![u] = "idle"]
    /\ row' = [row EXCEPT ![u] = NoRow]

\* The history of a code-update statement issued by u on text t.
NoteUpdate(u, t, res) ==
    /\ first_used_by' =
           IF res.err = "none" /\ UpdateMatches(access_codes, t)
              /\ access_codes[t].used_by = NULL
           THEN [first_used_by EXCEPT ![t] = u]
           ELSE first_used_by
    /\ now' = IF res.err = "none" /\ UpdateMatches(access_codes, t)
              THEN now + 1 ELSE now

(***************************************************************************)
(* Athlete page: validateCode                                              *)
(***************************************************************************)

\* Mutant: validateCode without its used_at check.
AthleteCodeErrorNoUsedCheck(t) ==
    IF t \notin DOMAIN access_codes THEN ErrInvalid
    ELSE IF access_codes[t].role # "athlete" THEN ErrType
    ELSE NULL

\* The checks of validateCode on the fetched access code: the message thrown,
\* or NULL when the code passes.
AthleteCodeError(t) ==
    IF t \notin DOMAIN access_codes THEN ErrInvalid
    ELSE IF access_codes[t].used_at # 0 THEN ErrUsed
    ELSE IF access_codes[t].role # "athlete" THEN ErrType
    ELSE NULL

\* Verify: validateCode up to its first query.
AthValidate(u, t) ==
    /\ pc[u] = "idle" /\ page[u] = "athlete" /\ Gestures < MaxRuns
    /\ Gesture(u)
    /\ Typed(u, t)
    /\ codeDetails' = [codeDetails EXCEPT ![u] = NoDetails]
    /\ landed' = [landed EXCEPT ![u] = NULL]
    /\ IF Trim(t) = ""
       THEN Fails(u, ErrEnterCode, "none")
       ELSE IF AthleteCodeError(Trim(t)) # NULL
            THEN Fails(u, AthleteCodeError(Trim(t)), "none")
            ELSE /\ error' = [error EXCEPT ![u] = NULL]
                 /\ cause' = [cause EXCEPT ![u] = "none"]
                 /\ row' = [row EXCEPT ![u] = Fetched(Trim(t))]
                 /\ pc' = [pc EXCEPT ![u] = "v_connection"]
    /\ UNCHANGED <<db, now, page, users, first_used_by, step_ok, boot,
                   selectedSports, client>>

\* Mutant: validateCode without its connection check.
ExistingConnectionOff(u, r) == FALSE

\* .from('coach_athletes').select('id').match({...}).single()
ExistingConnection(u, r) ==
    \E x \in BagToSet(coach_athletes) :
        /\ x.athlete_id = u
        /\ x.coach_id = r.coach_id
        /\ x.sport_id = r.sport_id
        /\ x.organization_id = r.organization_id

\* validateCode after its second query: reject or setCodeDetails.
AthCheckConnection(u) ==
    /\ pc[u] = "v_connection"
    /\ IF ExistingConnection(u, row[u])
       THEN /\ Fails(u, ErrConnected, "none")
            /\ UNCHANGED codeDetails
       ELSE /\ codeDetails' = [codeDetails EXCEPT ![u] =
                   [code |-> row[u].code, sport_id |-> row[u].sport_id,
                    coach_id |-> row[u].coach_id,
                    organization_id |-> row[u].organization_id,
                    gender |-> row[u].gender]]
            /\ pc' = [pc EXCEPT ![u] = "idle"]
            /\ row' = [row EXCEPT ![u] = NoRow]
            /\ UNCHANGED <<error, cause>>
    /\ UNCHANGED <<db, now, page, code, landed, users, runs, first_used_by,
                   step_ok, boot, selectedSports, client>>

(***************************************************************************)
(* Athlete page: handleJoin                                                *)
(***************************************************************************)

\* Join: mark the code as used.
AthJoinUpdate(u, t) ==
    /\ pc[u] = "idle" /\ page[u] = "athlete" /\ Gestures < MaxRuns
    /\ codeDetails[u] # NoDetails
    /\ Gesture(u)
    /\ Typed(u, t)
    /\ landed' = [landed EXCEPT ![u] = NULL]
    /\ \E lost \in BOOLEAN :
         LET res == IF lost THEN [err |-> "transient", ac |-> access_codes,
                                  ca |-> coach_athletes]
                    ELSE UpdateAccessCode(access_codes, coach_athletes,
                                          Trim(t), u, now)
         IN  /\ access_codes' = res.ac
             /\ coach_athletes' = res.ca
             /\ NoteUpdate(u, Trim(t), res)
             /\ IF res.err # "none"
                THEN /\ Fails(u, ErrJoin, res.err)
                     /\ UNCHANGED step_ok
                ELSE /\ pc' = [pc EXCEPT ![u] = "j_connect"]
                     /\ cause' = [cause EXCEPT ![u] = "none"]
                     /\ step_ok' = step_ok \cup
                            {<<u, Trim(t), codeDetails[u].code, page[u]>>}
                     /\ UNCHANGED <<error, row>>
    /\ UNCHANGED <<user_sports, profiles, page, codeDetails, users, boot,
                   selectedSports, client>>

\* The coach_athletes row handleJoin inserts.
JoinCoachAthlete(u) ==
    [coach_id |-> codeDetails[u].coach_id, athlete_id |-> u,
     sport_id |-> codeDetails[u].sport_id,
     organization_id |-> codeDetails[u].organization_id,
     gender |-> codeDetails[u].gender]

\* The user_sports row handleJoin inserts.
JoinUserSport(u) ==
    [user_id |-> u, sport_id |-> codeDetails[u].sport_id,
     organization_id |-> codeDetails[u].organization_id,
     gender |-> codeDetails[u].gender]

\* Mutant: a catch block that releases the code again.
JoinInsertFailsUndo(u, why) ==
    /\ Fails(u, ErrJoin, why)
    /\ access_codes' =
           IF Trim(code[u]) \in DOMAIN access_codes
           THEN [access_codes EXCEPT ![Trim(code[u])].used_at = 0,
                                     ![Trim(code[u])].used_by = NULL]
           ELSE access_codes
    /\ UNCHANGED profiles

\* catch of handleJoin after the code was marked used: the message is shown,
\* nothing is undone.
JoinInsertFails(u, why) ==
    /\ Fails(u, ErrJoin, why)
    /\ UNCHANGED <<access_codes, profiles>>

\* Join: connect athlete to coach.
AthJoinConnect(u) ==
    /\ pc[u] = "j_connect"
    /\ \E lost \in BOOLEAN :
         LET res == IF lost THEN [err |-> "transient", rows |-> coach_athletes]
                    ELSE InsertCoachAthlete(coach_athletes, JoinCoachAthlete(u))
         IN  /\ coach_athletes' = res.rows
             /\ IF res.err # "none"
                THEN JoinInsertFails(u, res.err)
                ELSE /\ pc' = [pc EXCEPT ![u] = "j_sport"]
                     /\ UNCHANGED <<access_codes, profiles, error, cause, row>>
    /\ UNCHANGED <<user_sports, now, page, code, codeDetails, landed, users, runs,
                   first_used_by, step_ok, boot, selectedSports, client>>

\* Join: add the sport to the user's sports, then report success and navigate.
AthJoinSport(u) ==
    /\ pc[u] = "j_sport"
    /\ \E lost \in BOOLEAN :
         LET res == IF lost THEN [err |-> "transient", rows |-> user_sports]
                    ELSE InsertUserSport(user_sports, JoinUserSport(u))
         IN  /\ user_sports' = res.rows
             /\ IF res.err # "none"
                THEN /\ JoinInsertFails(u, res.err)
                     /\ UNCHANGED <<landed, page, code, codeDetails>>
                ELSE /\ pc' = [pc EXCEPT ![u] = "idle"]
                     /\ landed' = [landed EXCEPT ![u] = "/athlete"]
                     /\ Mounted(u, "athlete")
                     /\ UNCHANGED <<access_codes, profiles, cause, row>>
    /\ UNCHANGED <<coach_athletes, now, users, runs, first_used_by, step_ok, boot,
                   selectedSports, client>>

(***************************************************************************)
(* Coach page: handleSubmit                                                *)
(***************************************************************************)

\* .from('access_codes').select('*').eq('code', t).is('used_at', null).single()
UnusedCode(t) == t \in DOMAIN access_codes /\ access_codes[t].used_at = 0

\* The checks of handleSubmit on the fetched code: the message, or NULL.
CoachCodeError(t) ==
    IF ~UnusedCode(t) THEN ErrInvalidOrExpired
    ELSE IF access_codes[t].role # "coach" THEN ErrNotCoach
    ELSE NULL

\* Submit: verify the access code (the input is not trimmed in the query).
CoachSubmit(u, t) ==
    /\ pc[u] = "idle" /\ page[u] = "coach" /\ Gestures < MaxRuns
    /\ Trim(t) # ""
    /\ Gesture(u)
    /\ Typed(u, t)
    /\ landed' = [landed EXCEPT ![u] = NULL]
    /\ IF CoachCodeError(t) # NULL
       THEN Fails(u, CoachCodeError(t), "none")
       ELSE /\ error' = [error EXCEPT ![u] = NULL]
            /\ cause' = [cause EXCEPT ![u] = "none"]
            /\ row' = [row EXCEPT ![u] = Fetched(t)]
            /\ pc' = [pc EXCEPT ![u] = "c_profile"]
    /\ UNCHANGED <<db, now, page, codeDetails, users, first_used_by,
                   step_ok, boot, selectedSports, client>>

\* .from('profiles').update(fields).eq('id', u)
UpdateProfile(pr, u, role, org) ==
    IF pr[u].exists
    THEN [pr EXCEPT ![u].role = role, ![u].organization_id = org]
    ELSE pr

\* Submit: update profile with organization; an error ends the handler.
CoachUpdateProfile(u) ==
    /\ pc[u] = "c_profile"
    /\ \E lost \in BOOLEAN :
         IF lost
         THEN /\ Fails(u, ErrOccurred, "transient")
              /\ UNCHANGED profiles
         ELSE /\ profiles' = UpdateProfile(profiles, u, profiles[u].role,
                                           row[u].organization_id)
              /\ pc' = [pc EXCEPT ![u] = "c_mark"]
              /\ UNCHANGED <<error, cause, row>>
    /\ UNCHANGED <<access_codes, coach_athletes, user_sports, now, page, code,
                   codeDetails, landed, users, runs, first_used_by, step_ok, boot,
                   selectedSports, client>>

\* A handler awaits the code update without inspecting its error.
MarkUsedUnchecked(u, t) ==
    \E lost \in BOOLEAN :
      LET res == IF lost THEN [err |-> "transient", ac |-> access_codes,
                               ca |-> coach_athletes]
                 ELSE UpdateAccessCode(access_codes, coach_athletes, t, u, now)
      IN  /\ access_codes' = res.ac
          /\ coach_athletes' = res.ca
          /\ NoteUpdate(u, t, res)
          /\ step_ok' = IF res.err = "none"
                        THEN step_ok \cup {<<u, t, row[u].code, page[u]>>}
                        ELSE step_ok

\* A handler awaits the user_sports insert without inspecting its error.
InsertSportUnchecked(u) ==
    \E lost \in BOOLEAN :
      LET res == IF lost THEN [err |-> "transient", rows |-> user_sports]
                 ELSE InsertUserSport(user_sports,
                          [user_id |-> u, sport_id |-> row[u].sport_id,
                           organization_id |-> row[u].organization_id,
                           gender |-> NULL])
      IN  user_sports' = res.rows

\* The handler is over: navigate(route).
Lands(u, route) ==
    /\ landed' = [landed EXCEPT ![u] = route]
    /\ pc' = [pc EXCEPT ![u] = "idle"]
    /\ row' = [row EXCEPT ![u] = NoRow]

\* Submit: mark code as used, then navigate unless a sport is to be added.
CoachMarkUsed(u) ==
    /\ pc[u] = "c_mark"
    /\ MarkUsedUnchecked(u, code[u])
    /\ IF row[u].sport_id # NULL
       THEN /\ pc' = [pc EXCEPT ![u] = "c_sport"]
            /\ UNCHANGED <<landed, row>>
       ELSE Lands(u, "/coach")
    /\ UNCHANGED <<user_sports, profiles, page, code, error, codeDetails, users,
                   runs, cause, boot, selectedSports, client>>

\* Submit: add sport association, then navigate.
CoachInsertSport(u) ==
    /\ pc[u] = "c_sport"
    /\ InsertSportUnchecked(u)
    /\ Lands(u, "/coach")
    /\ UNCHANGED <<access_codes, coach_athletes, profiles, now, page, code, error,
                   codeDetails, users, runs, cause, first_used_by, step_ok, boot,
                   selectedSports, client>>

(***************************************************************************)
(* Sign-up page: handleSignUp                                              *)
(***************************************************************************)

\* INSERT INTO auth.users with its AFTER INSERT trigger on_auth_user_created,
\* as one statement: an exception raised by the trigger undoes the insert.
OnAuthUserCreated(u, meta, email, out) ==
    LET res == HandleNewUser(profiles, u, meta, email, out, boot[u].calls)
    IN  /\ profiles' = res.pr
        /\ boot' = [boot EXCEPT ![u] = res.boot]
        /\ users' = IF res.boot.raised THEN users ELSE users \cup {u}

\* Sign Up: supabase.auth.signUp creates the identity; the form has refused a
\* blank name or email before.
SignUpSubmit(u, t) ==
    /\ pc[u] = "idle" /\ page[u] = "signup" /\ Gestures < MaxRuns
    /\ u \notin users
    /\ Gesture(u)
    /\ Typed(u, t)
    /\ \E out \in InsertOutcomes : OnAuthUserCreated(u, "Ann", "ann@x", out)
    /\ error' = [error EXCEPT ![u] = IF boot'[u].raised THEN ErrOccurred
                                     ELSE NULL]
    /\ pc' = [pc EXCEPT ![u] = IF boot'[u].raised \/ Trim(t) = ""
                               THEN "idle" ELSE "s_select"]
    /\ store' = [store EXCEPT ![u] =
                    SetUser(@, IF boot'[u].raised THEN NULL ELSE u)]
    /\ UNCHANGED <<access_codes, coach_athletes, user_sports, now, page,
                   codeDetails, row, landed, cause, first_used_by, step_ok,
                   selectedSports, setting, shell>>

\* Sign Up: look the access code up among the unused codes.
SignUpSelect(u) ==
    /\ pc[u] = "s_select"
    /\ IF ~UnusedCode(Trim(code[u]))
       THEN /\ Fails(u, ErrInvalidOrExpired, "none")
            /\ store' = [store EXCEPT ![u] = SetUser(@, NULL)]
       ELSE /\ row' = [row EXCEPT ![u] = Fetched(Trim(code[u]))]
            /\ pc' = [pc EXCEPT ![u] = "s_mark"]
            /\ UNCHANGED <<error, cause, store>>
    /\ UNCHANGED <<db, now, page, code, codeDetails, landed, users, runs,
                   first_used_by, step_ok, boot, selectedSports, setting,
                   shell>>

\* Sign Up: mark the code used.
SignUpMarkUsed(u) ==
    /\ pc[u] = "s_mark"
    /\ MarkUsedUnchecked(u, Trim(code[u]))
    /\ pc' = [pc EXCEPT ![u] = "s_profile"]
    /\ UNCHANGED <<user_sports, profiles, page, code, error, codeDetails, row,
                   landed, users, runs, cause, boot, selectedSports, client>>

\* Sign Up: write role and organization of the code into the profile.
SignUpProfile(u) ==
    /\ pc[u] = "s_profile"
    /\ \E lost \in BOOLEAN :
         profiles' = IF lost THEN profiles
                     ELSE UpdateProfile(profiles, u, row[u].role,
                                        row[u].organization_id)
    /\ IF row[u].sport_id # NULL
       THEN /\ pc' = [pc EXCEPT ![u] = "s_sport"]
            /\ UNCHANGED <<landed, row, client>>
       ELSE /\ Lands(u, "/dashboard")
            /\ CallSetRole(u, store[u], row[u].role)
    /\ UNCHANGED <<access_codes, coach_athletes, user_sports, now, page, code,
                   error, codeDetails, users, runs, cause, first_used_by,
                   step_ok, boot, selectedSports, shell>>

\* Sign Up: add the sport of the code, then setRole.
SignUpSport(u) ==
    /\ pc[u] = "s_sport"
    /\ InsertSportUnchecked(u)
    /\ Lands(u, "/dashboard")
    /\ CallSetRole(u, store[u], row[u].role)
    /\ UNCHANGED <<access_codes, coach_athletes, profiles, now, page, code, error,
                   codeDetails, users, runs, cause, first_used_by, step_ok, boot,
                   selectedSports, shell>>

(***************************************************************************)
(* Specification                                                           *)
(***************************************************************************)

Next ==
    \/ \E u \in Users, p \in Pages : Navigate(u, p)
    \/ \E u \in Users, t \in InputTexts : AthValidate(u, t)
    \/ \E u \in Users : AthCheckConnection(u)
    \/ \E u \in Users, t \in InputTexts : AthJoinUpdate(u, t)
    \/ \E u \in Users : AthJoinConnect(u)
    \/ \E u \in Users : AthJoinSport(u)
    \/ \E u \in Users, t \in InputTexts : CoachSubmit(u, t)
    \/ \E u \in Users : CoachUpdateProfile(u)
    \/ \E u \in Users : CoachMarkUsed(u)
    \/ \E u \in Users : CoachInsertSport(u)
    \/ \E u \in Users, t \in InputTexts : SignUpSubmit(u, t)
    \/ \E u \in Users : SignUpSelect(u)
    \/ \E u \in Users : SignUpMarkUsed(u)
    \/ \E u \in Users : SignUpProfile(u)
    \/ \E u \in Users : SignUpSport(u)
    \/ \E u \in Users, role \in StoreRoles : SetRoleDone(u, role)

Spec == Init /\ [][Next]_vars

(***************************************************************************)
(* Specification of the profile bootstrap alone: identities are created    *)
(* with any metadata and any insert outcomes, and the trigger function may *)
(* run again for an identity that exists.                                  *)
(***************************************************************************)

\* Bound on the runs of handle_new_user for one identity.
MaxCalls == 3

\* An identity is inserted into auth.users.
AuthInsert(u, meta, email, out) ==
    /\ u \notin users
    /\ OnAuthUserCreated(u, meta, email, out)
    /\ UNCHANGED <<access_codes, coach_athletes, user_sports, now, page, code,
                   error, codeDetails, row, pc, landed, runs, cause,
                   first_used_by, step_ok, selectedSports, client>>

\* handle_new_user runs once more for an identity that exists.
TriggerAgain(u, meta, email, out) ==
    /\ u \in users
    /\ boot[u].calls < MaxCalls
    /\ OnAuthUserCreated(u, meta, email, out)
    /\ UNCHANGED <<access_codes, coach_athletes, user_sports, now, page, code,
                   error, codeDetails, row, pc, landed, runs, cause,
                   first_used_by, step_ok, selectedSports, client>>

BootNext ==
    \/ \E u \in Users, meta \in MetaNames, email \in Emails,
          out \in InsertOutcomes : AuthInsert(u, meta, email, out)
    \/ \E u \in Users, meta \in MetaNames, email \in Emails,
          out \in InsertOutcomes : TriggerAgain(u, meta, email, out)

BootSpec == Init /\ [][BootNext]_vars

(***************************************************************************)
(* Specification of the code generators: the admin CodeGenerator and the   *)
(* coach code generator insert access codes under generated texts.         *)
(***************************************************************************)

\* Texts generateReadableCode can return.
GenTexts == {"G1", "G2"}

\* RoleType of the admin generator's role select.
RoleTypes == {"admin", "coach", "athlete"}

\* Values of the sport and gender selects ("" is nothing selected).
SportChoices == {"", "S1"}
GenderChoices == {"", "female"}

ErrSelectSport == "Please select a sport"
ErrSelectGender == "Please select a gender"
ErrNoOrganization == "Organization not found"
ErrGenerate == "Failed to generate code"

\* Columns of access_codes an insert leaves out get their defaults.
AccessCodeDefaults ==
    [role |-> NULL, organization_id |-> NULL, sport_id |-> NULL,
     gender |-> NULL, created_by |-> NULL, coach_id |-> NULL,
     used_at |-> 0, used_by |-> NULL]

\* INSERT INTO access_codes (code is UNIQUE): [err, ac].
InsertAccessCode(ac, g, fields) ==
    IF g \in DOMAIN ac THEN [err |-> "duplicate", ac |-> ac]
    ELSE [err |-> "none", ac |-> ac @@ (g :> (fields @@ AccessCodeDefaults))]

\* The fields the admin generateCode inserts for issuer u.
AdminCodeFields(u, role, sport, gender) ==
    [role |-> role,
     sport_id |-> IF role # "admin" THEN sport ELSE NULL,
     gender |-> IF role # "admin" THEN gender ELSE NULL,
     organization_id |-> profiles[u].organization_id,
     created_by |-> u]

\* The fields the coach generateCode inserts for issuer u.
CoachCodeFields(u, sport, gender) ==
    [role |-> "athlete", sport_id |-> sport, gender |-> gender,
     created_by |-> u]

\* A generator ends: message m (NULL on success), table ac.
Generated(u, m, ac) ==
    /\ error' = [error EXCEPT ![u] = m]
    /\ access_codes' = ac
    /\ UNCHANGED <<coach_athletes, user_sports, profiles, now, page, code,
                   codeDetails, row, pc, landed, users, runs, cause,
                   first_used_by, step_ok, boot, selectedSports, client>>

\* generateCode of the admin CodeGenerator.
AdminGenerate(u, g, role, sport, gender) ==
    /\ u \in users /\ profiles[u].role = "admin"
    /\ IF role # "admin" /\ sport = "" THEN Generated(u, ErrSelectSport, access_codes)
       ELSE IF role # "admin" /\ gender = ""
       THEN Generated(u, ErrSelectGender, access_codes)
       ELSE IF profiles[u].organization_id = NULL
       THEN Generated(u, ErrNoOrganization, access_codes)
       ELSE LET res == InsertAccessCode(access_codes, g,
                           AdminCodeFields(u, role, sport, gender))
            IN  Generated(u, IF res.err = "none" THEN NULL ELSE ErrGenerate,
                          res.ac)

\* generateCode of the coach code generator.
CoachGenerate(u, g, sport, gender) ==
    /\ u \in users /\ profiles[u].role = "coach"
    /\ IF sport = "" THEN Generated(u, ErrSelectSport, access_codes)
       ELSE IF gender = "" THEN Generated(u, ErrSelectGender, access_codes)
       ELSE LET res == InsertAccessCode(access_codes, g,
                           CoachCodeFields(u, sport, gender))
            IN  Generated(u, IF res.err = "none" THEN NULL ELSE ErrGenerate,
                          res.ac)

\* Issuers: admins and coaches, with or without an organization.
GenInit ==
    /\ \E k1 \in K1Rows, k2 \in K2Rows :
           access_codes = [t \in CodeTexts |-> IF t = "K1" THEN k1 ELSE k2]
    /\ coach_athletes = EmptyBag
    /\ user_sports = EmptyBag
    /\ users = Users
    /\ \E r \in [Users -> {"admin", "coach"}], o \in [Users -> {"O1", NULL}] :
           /\ profiles = [u \in Users |->
                             [exists |-> TRUE, role |-> r[u],
                              organization_id |-> o[u], full_name |-> "Ann"]]
           /\ store = [u \in Users |-> SignedIn(u, r[u], o[u])]
    /\ setting = [u \in Users |-> {}]
    /\ ShellInit
    /\ now = 1
    /\ page = [u \in Users |-> "codes"]
    /\ code = [u \in Users |-> ""]
    /\ error = [u \in Users |-> NULL]
    /\ codeDetails = [u \in Users |-> NoDetails]
    /\ row = [u \in Users |-> NoRow]
    /\ pc = [u \in Users |-> "idle"]
    /\ landed = [u \in Users |-> NULL]
    /\ runs = [u \in Users |-> 0]
    /\ cause = [u \in Users |-> "none"]
    /\ first_used_by = [t \in CodeTexts |-> NULL]
    /\ step_ok = {}
    /\ boot = [u \in Users |-> NoBoot]
    /\ selectedSports = [u \in Users |-> {}]

GenNext ==
    \/ \E u \in Users, g \in GenTexts, role \in RoleTypes,
          sport \in SportChoices, gender \in GenderChoices :
              AdminGenerate(u, g, role, sport, gender)
    \/ \E u \in Users, g \in GenTexts, sport \in SportChoices,
          gender \in GenderChoices : CoachGenerate(u, g, sport, gender)

GenSpec == GenInit /\ [][GenNext]_vars

(***************************************************************************)
(* Specification of the sport settings: the redemption flows together with *)
(* the Settings page, where a user adds and removes sports.  Code K1 may    *)
(* also be one a coach generated, which carries no organization.  The       *)
(* awaits of handleSportToggle read and write rows of the user alone, so    *)
(* the handler is one step.                                                 *)
(***************************************************************************)

\* The sports table, as listed by fetchSports.
Sports == {"S1", "S2"}

ErrUpdateSport == "Failed to update sport"

\* An athlete code as the coach generator inserts it.
CoachIssuedRow == CodeRow("athlete", NULL, "S1", "female", "c1", NULL)

\* .from('user_sports').select(sports(id, name)).eq('user_id', u)
\*     .eq('organization_id', org)
UserSportsOf(us, u, org) ==
    {x.sport_id : x \in {y \in BagToSet(us) :
                            y.user_id = u /\ y.organization_id = org}}

\* .from('user_sports').delete().match({user_id, sport_id, organization_id})
DeleteUserSport(us, u, sport, org) ==
    LET keep == {x \in BagToSet(us) : UserSportKey(x) # <<u, sport, org>>}
    IN  [x \in keep |-> us[x]]

\* fetchUserSports: what the page shows as selected afterwards.  Without an
\* organization, or when the query fails, the list stays as it was.
FetchUserSports(us, pr, u, shown, lost) ==
    IF pr[u].organization_id = NULL \/ lost THEN shown
    ELSE UserSportsOf(us, u, pr[u].organization_id)

\* The Settings page mounts: useEffect runs fetchUserSports.
OpenSettings(u) ==
    /\ pc[u] = "idle" /\ Gestures < MaxRuns
    /\ u \in users
    /\ page[u] # "settings"
    /\ Gesture(u)
    /\ Mounted(u, "settings")
    /\ \E lost \in BOOLEAN :
         selectedSports' = [selectedSports EXCEPT ![u] =
             FetchUserSports(user_sports, profiles, u, {}, lost)]
    /\ UNCHANGED <<db, now, row, pc, landed, users, cause, first_used_by,
                   step_ok, boot, client>>

\* handleSportToggle ended: the message, the table and the list shown.
Toggled(u, m, why, us, shown) ==
    /\ error' = [error EXCEPT ![u] = m]
    /\ cause' = [cause EXCEPT ![u] = why]
    /\ user_sports' = us
    /\ selectedSports' = [selectedSports EXCEPT ![u] = shown]

\* handleSportToggle: remove the sport when the page shows it as selected,
\* add it otherwise, then fetch the list again.
SportToggle(u, sport) ==
    /\ pc[u] = "idle" /\ page[u] = "settings" /\ Gestures < MaxRuns
    /\ u \in users
    /\ Gesture(u)
    /\ LET org == profiles[u].organization_id
           shown == selectedSports[u]
       IN  IF org = NULL
           THEN Toggled(u, ErrNoOrganization, "none", user_sports, shown)
           ELSE \E lost \in BOOLEAN, lostFetch \in BOOLEAN :
             IF lost
             THEN Toggled(u, ErrUpdateSport, "transient", user_sports, shown)
             ELSE IF sport \in shown
             THEN LET us == DeleteUserSport(user_sports, u, sport, org)
                  IN  Toggled(u, NULL, "none", us,
                              FetchUserSports(us, profiles, u,
                                              shown \ {sport}, lostFetch))
             ELSE LET res == InsertUserSport(user_sports,
                                 [user_id |-> u, sport_id |-> sport,
                                  organization_id |-> org, gender |-> NULL])
                  IN  IF res.err # "none"
                      THEN Toggled(u, ErrUpdateSport, res.err, user_sports,
                                   shown)
                      ELSE Toggled(u, NULL, "none", res.rows,
                                   FetchUserSports(res.rows, profiles, u,
                                                   shown \cup {sport},
                                                   lostFetch))
    /\ UNCHANGED <<access_codes, coach_athletes, profiles, now, page, code,
                   codeDetails, row, pc, landed, users, first_used_by,
                   step_ok, boot, client>>

SportsInit == InitWith(K1Rows \cup {CoachIssuedRow})

SportsNext ==
    \/ Next
    \/ \E u \in Users : OpenSettings(u)
    \/ \E u \in Users, sport \in Sports : SportToggle(u, sport)

SportsSpec == SportsInit /\ [][SportsNext]_vars

(***************************************************************************)
(* Specification of the roles: the redemption and sign-up flows together   *)
(* with the RoleSelection page.                                            *)
(***************************************************************************)

ErrUpdateProfile == "Failed to update profile. Please try again."

\* The buttons of RoleSelection: roles[].id
RoleButtons == {"admin", "coach", "athlete"}

\* user.email?.split('@')[0] || 'New User' of the signed-up address
EmailName == "ann"

\* /roleselection renders RoleSelection for a user the guard lets through:
\* the store is not loading and holds a user and a role.
OpenRoleSelection(u) ==
    /\ pc[u] = "idle" /\ Gestures < MaxRuns
    /\ page[u] # "roleselection"
    /\ ~store[u].loading /\ store[u].user # NULL /\ store[u].role # NULL
    /\ Gesture(u)
    /\ Mounted(u, "roleselection")
    /\ UNCHANGED <<db, now, row, pc, landed, users, cause, first_used_by,
                   step_ok, boot, selectedSports, client>>

\* handleRoleSelect: first check if profile exists.
RoleSelect(u, selectedRole) ==
    /\ pc[u] = "idle" /\ page[u] = "roleselection" /\ Gestures < MaxRuns
    /\ store[u].user # NULL
    /\ Gesture(u)
    /\ error' = [error EXCEPT ![u] = NULL]
    /\ landed' = [landed EXCEPT ![u] = NULL]
    /\ row' = [row EXCEPT ![u] = [NoRow EXCEPT !.role = selectedRole]]
    /\ pc' = [pc EXCEPT ![u] = IF profiles[store[u].user].exists
                               THEN "r_update" ELSE "r_insert"]
    /\ UNCHANGED <<db, now, page, code, codeDetails, users, cause,
                   first_used_by, step_ok, boot, selectedSports, client>>

\* handleRoleSelect: update or insert profileData, [err, pr].
UpsertProfile(pr, u, role, existing, lost) ==
    IF lost THEN [err |-> "transient", pr |-> pr]
    ELSE IF ~ProfileRoleCheck(role) THEN [err |-> "check", pr |-> pr]
    ELSE IF existing
    THEN [err |-> "none",
          pr |-> IF pr[u].exists
                 THEN [pr EXCEPT ![u].role = role, ![u].full_name = EmailName]
                 ELSE pr]
    ELSE InsertProfile(pr, u, [exists |-> TRUE, role |-> role,
                               organization_id |-> NULL,
                               full_name |-> EmailName], FALSE)

\* handleRoleSelect: write the profile, then setRole and navigate.
RoleUpsert(u) ==
    /\ pc[u] \in {"r_update", "r_insert"}
    /\ \E lost \in BOOLEAN :
         LET res == UpsertProfile(profiles, u, row[u].role,
                                  pc[u] = "r_update", lost)
         IN  /\ profiles' = res.pr
             /\ IF res.err # "none"
                THEN /\ Fails(u, ErrUpdateProfile, res.err)
                     /\ UNCHANGED <<landed, client>>
                ELSE /\ Lands(u, "/" \o row[u].role)
                     /\ CallSetRole(u, store[u], row[u].role)
                     /\ UNCHANGED <<error, cause>>
    /\ UNCHANGED <<access_codes, coach_athletes, user_sports, now, page, code,
                   codeDetails, users, runs, first_used_by, step_ok, boot,
                   selectedSports, shell>>

RoleNext ==
    \/ Next
    \/ \E u \in Users : OpenRoleSelection(u)
    \/ \E u \in Users, selectedRole \in RoleButtons : RoleSelect(u, selectedRole)
    \/ \E u \in Users : RoleUpsert(u)

RoleSpec == Init /\ [][RoleNext]_vars

(***************************************************************************)
(* Specification of the browser shell: the auth store under the calls the   *)
(* components make, the auth-state listener, and the router with its route  *)
(* guards, in the browser of one identity.  Each function has at most one   *)
(* await in flight.                                                         *)
(***************************************************************************)

\* The identity the browser belongs to.
Me == "a1"

\* Organizations a caller passes to setOrganizationId.
OrgIds == {NULL, "O1"}

\* The awaits of the store and of the auth client.
TaskNames == {"getSession", "sessionProfile", "signOut", "initProfile",
              "libSession", "libProfile", "eventProfile", "checkRole"}

\* The profiles the identity can have: none (bootstrap failed), the
\* bootstrapped one, a coach of an organization, one with the role unset.
MyProfiles ==
    { NoProfile,
      [exists |-> TRUE, role |-> "athlete", organization_id |-> NULL,
       full_name |-> "Ann"],
      [exists |-> TRUE, role |-> "coach", organization_id |-> "O1",
       full_name |-> "Ann"],
      [exists |-> TRUE, role |-> NULL, organization_id |-> NULL,
       full_name |-> "Ann"] }

\* Calls and events in one run of the specification.
MaxAuthCalls == 4

\* The step is a call of a component, an event or a visit: one more of them.
Called ==
    /\ runs[Me] < MaxAuthCalls
    /\ runs' = [runs EXCEPT ![Me] = @ + 1]

\* The step resumes an await or renders.
Resumed == UNCHANGED runs

\* The store changes to st and nothing else of the browser's data does.
StoreBecomes(st) ==
    /\ store' = [store EXCEPT ![Me] = st]
    /\ UNCHANGED <<flows, profiles>>

\* supabase.auth.signInWithPassword / signUp: the client holds a session.
SignInWithPassword ==
    /\ Called
    /\ session = NULL
    /\ session' = Me
    /\ UNCHANGED <<flows, profiles, store, setting, tasks, location, view,
                   checked, authListenerInitialized, subscriptions,
                   cleanups, registered>>

\* A component calls setUser(user).
CallSetUser(user) ==
    /\ Called
    /\ user # NULL => session = user
    /\ StoreBecomes(SetUser(store[Me], user))
    /\ UNCHANGED <<setting, shell>>

\* A component calls setRole(role).
CallSetRoleOf(role) ==
    /\ Called
    /\ CallSetRole(Me, store[Me], role)
    /\ UNCHANGED <<flows, profiles, shell>>

\* A component calls setOrganizationId(orgId).
CallSetOrganizationId(org) ==
    /\ Called
    /\ StoreBecomes(SetOrganizationId(store[Me], org))
    /\ UNCHANGED <<setting, shell>>

\* An await of the store or the auth client starts, or ends.
Awaits(t) == tasks' = tasks \cup {t}
Resumes(t, next) == t \in tasks /\ tasks' = (tasks \ {t}) \cup next

\* signOut up to supabase.auth.signOut().
CallSignOut ==
    /\ Called
    /\ StoreBecomes([store[Me] EXCEPT !.loading = TRUE])
    /\ Awaits("signOut")
    /\ UNCHANGED <<setting, session, location, view, checked,
                   authListenerInitialized, subscriptions, cleanups,
                   registered>>

\* signOut after its await: the store is reset, or only loading on a throw.
SignOutDone ==
    /\ Resumed
    /\ Resumes("signOut", {})
    /\ \E lost \in BOOLEAN :
         IF lost
         THEN /\ StoreBecomes([store[Me] EXCEPT !.loading = FALSE])
              /\ UNCHANGED session
         ELSE /\ StoreBecomes([store[Me] EXCEPT !.user = NULL, !.role = NULL,
                                  !.organizationId = NULL, !.loading = FALSE])
              /\ session' = NULL
    /\ UNCHANGED <<setting, location, view, checked, authListenerInitialized,
                   subscriptions, cleanups, registered>>

\* checkSession up to supabase.auth.getSession().
CallCheckSession ==
    /\ Called
    /\ Awaits("getSession")
    /\ UNCHANGED <<flows, profiles, store, setting, session, location, view,
                   checked, authListenerInitialized, subscriptions,
                   cleanups, registered>>

\* checkSession after getSession: no session, a session, or a throw.
GotSession ==
    /\ Resumed
    /\ "getSession" \in tasks
    /\ \E lost \in BOOLEAN :
         IF lost
         THEN /\ Resumes("getSession", {})
              /\ StoreBecomes([store[Me] EXCEPT !.loading = FALSE,
                                                !.initialized = TRUE])
         ELSE IF session = NULL
         THEN /\ Resumes("getSession", {})
              /\ StoreBecomes(SignedOut)
         ELSE /\ Resumes("getSession", {"sessionProfile"})
              /\ StoreBecomes(store[Me])
    /\ UNCHANGED <<setting, session, location, view, checked,
                   authListenerInitialized, subscriptions, cleanups,
                   registered>>

\* .from('profiles').select('role, organization_id').eq('id', u).single()
ProfileOf(pr, u, lost) ==
    IF lost \/ ~pr[u].exists THEN NoProfile ELSE pr[u]

\* checkSession after the profile query: profile?.role || null.
GotSessionProfile ==
    /\ Resumed
    /\ Resumes("sessionProfile", {})
    /\ \E lost \in BOOLEAN :
         LET profile == ProfileOf(profiles, Me, lost)
         IN  StoreBecomes(SignedIn(Me, profile.role, profile.organization_id))
    /\ UNCHANGED <<setting, session, location, view, checked,
                   authListenerInitialized, subscriptions, cleanups,
                   registered>>

\* initializeAuth of the store up to its profile query.
CallInitializeAuth ==
    /\ Called
    /\ store[Me].user # NULL
    /\ Awaits("initProfile")
    /\ UNCHANGED <<flows, profiles, store, setting, session, location, view,
                   checked, authListenerInitialized, subscriptions,
                   cleanups, registered>>

\* initializeAuth of the store after its profile query.
InitProfileDone ==
    /\ Resumed
    /\ Resumes("initProfile", {})
    /\ \E lost \in BOOLEAN :
         LET profile == ProfileOf(profiles, Me, lost)
         IN  IF ~profile.exists
             THEN StoreBecomes([store[Me] EXCEPT !.loading = FALSE])
             ELSE StoreBecomes([store[Me] EXCEPT
                                   !.role = profile.role,
                                   !.organizationId = profile.organization_id,
                                   !.loading = FALSE])
    /\ UNCHANGED <<setting, session, location, view, checked,
                   authListenerInitialized, subscriptions, cleanups,
                   registered>>

\* The page is loaded again: the store is created anew and persist restores
\* role and organizationId from sessionStorage; the awaits are gone.
Reload ==
    /\ Called
    /\ StoreBecomes([NoStore EXCEPT
                        !.role = store[Me].role,
                        !.organizationId = store[Me].organizationId])
    /\ setting' = [setting EXCEPT ![Me] = {}]
    /\ tasks' = {}
    /\ view' = "none"
    /\ checked' = Unmounted
    /\ authListenerInitialized' = FALSE
    /\ subscriptions' = {}
    /\ cleanups' = {}
    /\ UNCHANGED <<session, location, registered>>

\* Listeners registered in one run of the specification.
MaxListeners == 3

\* Mutant: initializeAuthListener without its flag.
AlreadyListeningOff == FALSE

\* if (authListenerInitialized) return;
AlreadyListening == authListenerInitialized

\* initializeAuthListener(): subscribe and return the cleanup, which the
\* caller keeps or drops; nothing when the flag is set.
InitializeAuthListener(keeps) ==
    IF AlreadyListening
    THEN UNCHANGED <<authListenerInitialized, subscriptions, cleanups,
                     registered>>
    ELSE /\ registered < MaxListeners
         /\ registered' = registered + 1
         /\ subscriptions' = subscriptions \cup {registered + 1}
         /\ authListenerInitialized' = TRUE
         /\ cleanups' = IF keeps THEN cleanups \cup {registered + 1}
                        ELSE cleanups

\* A component calls initializeAuthListener().
CallInitializeAuthListener(keeps) ==
    /\ Called
    /\ InitializeAuthListener(keeps)
    /\ UNCHANGED <<flows, profiles, store, setting, session, tasks, location,
                   view, checked>>

\* The cleanup returned for subscription id runs, once.
RunCleanup(id) ==
    /\ Called
    /\ id \in cleanups
    /\ cleanups' = cleanups \ {id}
    /\ subscriptions' = subscriptions \ {id}
    /\ authListenerInitialized' = FALSE
    /\ UNCHANGED <<flows, profiles, store, setting, session, tasks, location,
                   view, checked, registered>>

\* handleAuthStateChange('SIGNED_IN', session) up to its profile query: the
\* store and the roles in flight it leaves, and whether it awaits.
OnSignedIn(st) ==
    IF st.user = Me THEN [st |-> st, awaits |-> FALSE]
    ELSE [st |-> SetUser(st, Me), awaits |-> TRUE]

\* initializeAuth of the auth client up to getSession().
CallLibInitializeAuth ==
    /\ Called
    /\ Awaits("libSession")
    /\ UNCHANGED <<flows, profiles, store, setting, session, location, view,
                   checked, authListenerInitialized, subscriptions,
                   cleanups, registered>>

\* initializeAuth after getSession(): an error signs out; a session is
\* handled as SIGNED_IN; then the listener is initialized.
LibGotSession ==
    /\ Resumed
    /\ "libSession" \in tasks
    /\ \E lost \in BOOLEAN :
         IF lost
         THEN /\ Resumes("libSession", {"signOut"})
              /\ StoreBecomes([store[Me] EXCEPT !.loading = TRUE])
              /\ UNCHANGED <<authListenerInitialized, subscriptions,
                             cleanups, registered>>
         ELSE IF session # NULL /\ OnSignedIn(store[Me]).awaits
         THEN /\ Resumes("libSession", {"libProfile"})
              /\ StoreBecomes(OnSignedIn(store[Me]).st)
              /\ UNCHANGED <<authListenerInitialized, subscriptions,
                             cleanups, registered>>
         ELSE /\ Resumes("libSession", {})
              /\ StoreBecomes(store[Me])
              /\ InitializeAuthListener(FALSE)
    /\ UNCHANGED <<setting, session, location, view, checked>>

\* handleAuthStateChange after its profile query: setRole(profile.role) when
\* the profile has one.
OnProfileRole(lost) ==
    LET profile == ProfileOf(profiles, Me, lost)
    IN  /\ IF profile.role # NULL
           THEN CallSetRole(Me, store[Me], profile.role)
           ELSE UNCHANGED <<store, setting>>
        /\ UNCHANGED <<flows, profiles>>

\* initializeAuth after the profile query of its SIGNED_IN handling.
LibGotProfile ==
    /\ Resumed
    /\ Resumes("libProfile", {})
    /\ \E lost \in BOOLEAN : OnProfileRole(lost)
    /\ InitializeAuthListener(FALSE)
    /\ UNCHANGED <<session, location, view, checked>>

\* The auth client reports SIGNED_IN to the listener.
SignedInEvent ==
    /\ Called
    /\ subscriptions # {} /\ session = Me
    /\ StoreBecomes(OnSignedIn(store[Me]).st)
    /\ tasks' = IF OnSignedIn(store[Me]).awaits
                 THEN tasks \cup {"eventProfile"} ELSE tasks
    /\ UNCHANGED <<setting, session, location, view, checked,
                   authListenerInitialized, subscriptions, cleanups,
                   registered>>

\* handleAuthStateChange('SIGNED_IN') after its profile query.
EventGotProfile ==
    /\ Resumed
    /\ Resumes("eventProfile", {})
    /\ \E lost \in BOOLEAN : OnProfileRole(lost)
    /\ UNCHANGED <<session, location, view, checked, authListenerInitialized,
                   subscriptions, cleanups, registered>>

\* The session ends elsewhere and the auth client reports SIGNED_OUT to the
\* listener: store.signOut().
SignedOutEvent ==
    /\ Called
    /\ subscriptions # {} /\ session = Me
    /\ session' = NULL
    /\ StoreBecomes([store[Me] EXCEPT !.loading = TRUE])
    /\ Awaits("signOut")
    /\ UNCHANGED <<setting, location, view, checked, authListenerInitialized,
                   subscriptions, cleanups, registered>>

\* The paths of the routes of App.
Paths == {"/", "/login", "/signup", "/roleselection", "/admin", "/coach",
          "/athlete"}

\* requiredRole of the guard around the route at path, NULL when it has none.
RequiredRole(path) ==
    IF path = "/admin" THEN "admin"
    ELSE IF path = "/coach" THEN "coach"
    ELSE IF path = "/athlete" THEN "athlete"
    ELSE NULL

\* The children of the guarded routes.
Children(path) ==
    IF path = "/admin" THEN "SchoolAdmin"
    ELSE IF path = "/coach" THEN "CoachDashboard"
    ELSE IF path = "/athlete" THEN "AthleteDashboard"
    ELSE "RoleSelection"

\* What an element comes to: a redirect to a path, or something shown.
RedirectTo(path) == [to |-> path, shows |-> "Navigate"]
Shows(element) == [to |-> NULL, shows |-> element]

\* The dashboard of a role: the switch of the guard and of App.
DashboardOf(role) ==
    IF role \in {"admin", "coach", "athlete"} THEN "/" \o role
    ELSE "/roleselection"

\* getDashboardRedirect of App.
GetDashboardRedirect(st) ==
    IF st.user = NULL THEN "/login"
    ELSE IF st.role = NULL THEN "/roleselection"
    ELSE DashboardOf(st.role)

\* Mutant: a guard that lets any role through.
ProtectedRouteAnyRole(st, requiredRole, children) ==
    IF st.loading THEN Shows("spinner")
    ELSE IF st.user = NULL THEN RedirectTo("/login")
    ELSE IF st.role = NULL THEN RedirectTo("/roleselection")
    ELSE Shows(children)

\* ProtectedRoute of App.
ProtectedRoute(st, requiredRole, children) ==
    IF st.loading THEN Shows("spinner")
    ELSE IF st.user = NULL THEN RedirectTo("/login")
    ELSE IF st.role = NULL THEN RedirectTo("/roleselection")
    ELSE IF requiredRole # NULL /\ st.role # requiredRole
    THEN RedirectTo(DashboardOf(st.role))
    ELSE Shows(children)

\* App: the spinner while the store is loading, else the route's element.
AppElement(path, st) ==
    IF st.loading THEN Shows("spinner")
    ELSE IF path = "/"
    THEN IF st.user # NULL THEN RedirectTo(GetDashboardRedirect(st))
         ELSE Shows("Home")
    ELSE IF path = "/login"
    THEN IF st.user # NULL THEN RedirectTo(GetDashboardRedirect(st))
         ELSE Shows("Login")
    ELSE IF path = "/signup"
    THEN IF st.user # NULL THEN RedirectTo(GetDashboardRedirect(st))
         ELSE Shows("SignUp")
    ELSE ProtectedRoute(st, RequiredRole(path), Children(path))

\* The address changes: a link, the address bar, or navigate(path).
Visit(path) ==
    /\ Called
    /\ path # location
    /\ location' = path
    /\ view' = "none"
    /\ UNCHANGED <<flows, profiles, store, setting, session, tasks,
                   checked, authListenerInitialized, subscriptions,
                   cleanups, registered>>

\* React renders App for the location and the store: a Navigate element
\* replaces the location.
Render ==
    LET e == AppElement(location, store[Me])
    IN  /\ Resumed
        /\ view' = e.shows
        /\ location' = IF e.to # NULL THEN e.to ELSE location
        /\ UNCHANGED <<flows, profiles, store, setting, session, tasks,
                       checked, authListenerInitialized, subscriptions,
                       cleanups, registered>>

\* The ProtectedRoute component, rendered with its own isLoading.
CheckedRoute(isLoading, st, requiredRole, children) ==
    IF isLoading THEN Shows("spinner")
    ELSE IF st.user = NULL THEN RedirectTo("/login")
    ELSE IF st.role = NULL THEN RedirectTo("/roleselection")
    ELSE IF requiredRole # NULL /\ st.role # requiredRole
    THEN RedirectTo(DashboardOf(st.role))
    ELSE Shows(children)

\* The effect of the component for the current user: checkRole up to its
\* profile query, or to its end without a user.
CheckRole(c) ==
    /\ "checkRole" \notin tasks
    /\ IF store[Me].user = NULL
       THEN /\ checked' = [c EXCEPT !.deps = NULL, !.isLoading = FALSE]
            /\ UNCHANGED tasks
       ELSE /\ checked' = [c EXCEPT !.deps = store[Me].user]
            /\ Awaits("checkRole")
    /\ UNCHANGED <<flows, profiles, store, setting, session, location, view,
                   authListenerInitialized, subscriptions, cleanups,
                   registered>>

\* A page mounts <ProtectedRoute requiredRole={requiredRole}>: isLoading is
\* true, and the effect runs.
MountChecked(requiredRole) ==
    /\ Called
    /\ checked = Unmounted
    /\ CheckRole([Unmounted EXCEPT !.requiredRole = requiredRole,
                                   !.children = "children"])

\* The user of the store has changed under the mounted component: the effect
\* runs again.
UserChanged ==
    /\ Resumed
    /\ checked.children # NULL
    /\ checked.deps # store[Me].user
    /\ CheckRole(checked)

\* checkRole after its profile query: setRole(profile.role) when the profile
\* has one, and isLoading is false.
CheckRoleDone ==
    /\ Resumed
    /\ Resumes("checkRole", {})
    /\ \E lost \in BOOLEAN : OnProfileRole(lost)
    /\ checked' = [checked EXCEPT !.isLoading = FALSE]
    /\ UNCHANGED <<session, location, view, authListenerInitialized,
                   subscriptions, cleanups, registered>>

\* What React has the mounted component render for the store.
CheckedElement ==
    CheckedRoute(checked.isLoading, store[Me], checked.requiredRole,
                 checked.children)

\* The browser of Me as loaded: the store as created, a session kept by the
\* auth client or none, any of the profiles.
AuthInit ==
    /\ access_codes = [t \in CodeTexts |-> CHOOSE k \in K2Rows : TRUE]
    /\ coach_athletes = EmptyBag
    /\ user_sports = EmptyBag
    /\ users = {Me}
    /\ \E p \in MyProfiles :
           profiles = [u \in Users |-> IF u = Me THEN p ELSE NoProfile]
    /\ page = [u \in Users |-> "signup"]
    /\ store = [u \in Users |-> NoStore]
    /\ setting = [u \in Users |-> {}]
    /\ now = 1
    /\ code = [u \in Users |-> ""]
    /\ error = [u \in Users |-> NULL]
    /\ codeDetails = [u \in Users |-> NoDetails]
    /\ row = [u \in Users |-> NoRow]
    /\ pc = [u \in Users |-> "idle"]
    /\ landed = [u \in Users |-> NULL]
    /\ runs = [u \in Users |-> 0]
    /\ cause = [u \in Users |-> "none"]
    /\ first_used_by = [t \in CodeTexts |-> NULL]
    /\ step_ok = {}
    /\ boot = [u \in Users |-> NoBoot]
    /\ selectedSports = [u \in Users |-> {}]
    /\ session \in {NULL, Me}
    /\ tasks = {}
    /\ location = "/"
    /\ view = "none"
    /\ checked = Unmounted
    /\ HookInit
    /\ authListenerInitialized = FALSE
    /\ subscriptions = {}
    /\ cleanups = {}
    /\ registered = 0

\* setRole after its await, in the browser of Me.
SetRoleResumes ==
    \E role \in StoreRoles : SetRoleDone(Me, role)

AuthNext ==
    \/ SignInWithPassword
    \/ \E user \in {NULL, Me} : CallSetUser(user)
    \/ \E role \in StoreRoles : CallSetRoleOf(role)
    \/ SetRoleResumes
    \/ \E org \in OrgIds : CallSetOrganizationId(org)
    \/ CallSignOut
    \/ SignOutDone
    \/ CallCheckSession
    \/ GotSession
    \/ GotSessionProfile
    \/ CallInitializeAuth
    \/ InitProfileDone
    \/ Reload
    \/ \E keeps \in BOOLEAN : CallInitializeAuthListener(keeps)
    \/ \E id \in 1..MaxListeners : RunCleanup(id)
    \/ CallLibInitializeAuth
    \/ LibGotSession
    \/ LibGotProfile
    \/ SignedInEvent
    \/ EventGotProfile
    \/ SignedOutEvent
    \/ \E path \in Paths : Visit(path)
    \/ Render
    \/ \E requiredRole \in {NULL, "admin", "coach", "athlete"} :
           MountChecked(requiredRole)
    \/ UserChanged
    \/ CheckRoleDone

AuthSpec == AuthInit /\ [][AuthNext]_vars

\* React renders whenever the location or the store has changed, and every
\* await is answered.
AuthLive ==
    /\ AuthSpec
    /\ WF_vars(Render)
    /\ WF_vars(SetRoleResumes)
    /\ WF_vars(SignOutDone) /\ WF_vars(GotSession) /\ WF_vars(GotSessionProfile)
    /\ WF_vars(InitProfileDone) /\ WF_vars(LibGotSession)
    /\ WF_vars(LibGotProfile) /\ WF_vars(EventGotProfile)
    /\ WF_vars(UserChanged) /\ WF_vars(CheckRoleDone)

(***************************************************************************)
(* Confirmation dialog: useConfirmation                                    *)
(***************************************************************************)

\* Everything but the hook.
page_state == <<access_codes, coach_athletes, user_sports, profiles, now,
                page, code, error, codeDetails, row, pc, landed, users, runs,
                cause, first_used_by, step_ok, boot, selectedSports, store,
                setting, session, tasks, location, view, checked,
                authListenerInitialized, subscriptions, cleanups, registered>>

\* The promises confirm() has returned so far.
Returned == {p \in 1..MaxConfirms : promises[p] # "none"}

\* A resolver is called with value: a pending promise settles, a settled
\* one stays as it is.
Settle(ps, p, value) ==
    IF p # 0 /\ ps[p] = "pending" THEN [ps EXCEPT ![p] = value] ELSE ps

\* confirm(): a new promise, the dialog opens, and its resolver replaces
\* the one that was kept.
Confirm ==
    LET p == Cardinality(Returned) + 1
    IN  /\ p <= MaxConfirms
        /\ promises' = [promises EXCEPT ![p] = "pending"]
        /\ isOpen' = TRUE
        /\ resolve' = p
        /\ UNCHANGED page_state

\* handleConfirm: resolve?.(true); setIsOpen(false)
HandleConfirm ==
    /\ isOpen
    /\ promises' = Settle(promises, resolve, "true")
    /\ isOpen' = FALSE
    /\ UNCHANGED <<resolve, page_state>>

\* handleCancel: resolve?.(false); setIsOpen(false)
HandleCancel ==
    /\ isOpen
    /\ promises' = Settle(promises, resolve, "false")
    /\ isOpen' = FALSE
    /\ UNCHANGED <<resolve, page_state>>

ConfirmInit == InitWith({CHOOSE r \in K1Rows : TRUE})

ConfirmNext == Confirm \/ HandleConfirm \/ HandleCancel

ConfirmSpec == ConfirmInit /\ [][ConfirmNext]_vars

\* The user answers an open dialog.
ConfirmLive ==
    ConfirmSpec /\ WF_vars(HandleConfirm \/ HandleCancel)

(***************************************************************************)
(* Properties                                                              *)
(***************************************************************************)

\* The users whose code-update step on code k, on the athlete or coach page,
\* went through after their own validation of k had found it unused.
UpdatedBy(k) ==
    {u \in Users : \E p \in {"athlete", "coach"} : <<u, k, k, p>> \in step_ok}

\* u holds a relationship row or an organization binding that code k grants
\* (the issued codes grant different organizations).
HoldsFrom(u, k) ==
    LET o == access_codes[k].organization_id
    IN  \/ \E r \in BagToSet(coach_athletes) :
               r.athlete_id = u /\ r.organization_id = o
        \/ \E r \in BagToSet(user_sports) :
               r.user_id = u /\ r.organization_id = o
        \/ profiles[u].organization_id = o

\* CoachAthlete(coach = issuer of k, athlete = u, sport, organization of k)
LinkedToIssuer(u, k) ==
    \E r \in BagToSet(coach_athletes) :
        /\ r.coach_id = access_codes[k].created_by
        /\ r.athlete_id = u
        /\ r.sport_id = access_codes[k].sport_id
        /\ r.organization_id = access_codes[k].organization_id

\* UserSport(user = u, sport, organization, gender of k)
HasSportOf(u, k) ==
    \E r \in BagToSet(user_sports) :
        /\ r.user_id = u
        /\ r.sport_id = access_codes[k].sport_id
        /\ r.organization_id = access_codes[k].organization_id
        /\ r.gender = access_codes[k].gender

\* Number of coach_athletes rows holding the quadruple of r.
RowsWithKey(r) ==
    BagCardinality([x \in {y \in BagToSet(coach_athletes) :
                              CoachAthleteKey(y) = CoachAthleteKey(r)}
                      |-> coach_athletes[x]])

\* C1: among the users who validated a code while it was unused, at most one
\* gets through the code-update step; the others are turned away.
C1_ExactlyOneWins ==
    \A k \in CodeTexts : Cardinality(UpdatedBy(k)) <= 1

\* C2: once used_at of a code is set, no step clears it or overwrites used_at
\* or used_by.
C2_ConsumedOnce ==
    [][\A k \in CodeTexts :
          access_codes[k].used_at # 0 =>
              /\ access_codes'[k].used_at = access_codes[k].used_at
              /\ access_codes'[k].used_by = access_codes[k].used_by]_vars

\* C3: at most one user ever holds relationship rows or an organization
\* binding granted by one code.
C3_OnlyWinnerGains ==
    \A k \in CodeTexts : Cardinality({u \in Users : HoldsFrom(u, k)}) <= 1

\* C4: once athlete u has redeemed the unused athlete code k of coach C on the
\* athlete page and the handler is over without a store failure, k is used by
\* u and u has the CoachAthlete row with C and the UserSport row of k.
C4_RedeemedAthleteLinked ==
    \A u \in Users, k \in CodeTexts :
        ( /\ access_codes[k].role = "athlete"
          /\ access_codes[k].coach_id = access_codes[k].created_by
          /\ first_used_by[k] = u
          /\ <<u, k, k, "athlete">> \in step_ok
          /\ page[u] = "athlete" /\ pc[u] = "idle"
          /\ cause[u] # "transient" )
        => /\ access_codes[k].used_at # 0
           /\ access_codes[k].used_by = u
           /\ LinkedToIssuer(u, k)
           /\ HasSportOf(u, k)

\* C5: the recorded consumer of a code whose rows are missing is never left
\* with the terminal "already used" error when validating that code again.
C5_ConsumerRetryResumes ==
    \A u \in Users, k \in CodeTexts :
        ~ ( /\ page[u] = "athlete" /\ pc[u] = "idle"
            /\ Trim(code[u]) = k
            /\ access_codes[k].used_by = u
            /\ ~HasSportOf(u, k)
            /\ error[u] = ErrUsed )

\* C6: no handler ends in its catch block because a relationship insert met
\* an existing row.
C6_DuplicateInsertSucceeds ==
    \A u \in Users : cause[u] # "duplicate"

\* C7: every (coach, athlete, sport, organization) quadruple is held by
\* exactly one coach_athletes row, however often it was inserted.
C7_OneRowPerTuple ==
    \A r \in BagToSet(coach_athletes) : RowsWithKey(r) = 1

\* C7 witness: the trigger linked athlete and coach, the client's insert of
\* the same quadruple was refused, and one row holds the quadruple.
C7_Witness ==
    \E u \in Users :
        /\ cause[u] = "duplicate"
        /\ codeDetails[u] # NoDetails
        /\ RowsWithKey(JoinCoachAthlete(u)) = 1

\* The step of u is a relationship insert of handleJoin that failed.
JoinInsertFailed(u) ==
    /\ pc[u] \in {"j_connect", "j_sport"}
    /\ pc'[u] = "idle"
    /\ landed'[u] = NULL

\* C8: when a relationship insert of handleJoin fails, the code keeps its
\* used_at and used_by, the failing step adds no relationship row, and the
\* user is shown an error.
C8_FailedInsertKeepsCodeConsumed ==
    [][\A u \in Users :
          JoinInsertFailed(u) =>
              /\ access_codes' = access_codes
              /\ \A k \in CodeTexts :
                     <<u, k, codeDetails[u].code, "athlete">> \in step_ok
                         => access_codes'[k].used_at # 0
              /\ coach_athletes' = coach_athletes
              /\ user_sports' = user_sports
              /\ error'[u] # NULL]_vars

\* C8 witness: u's update consumed k, a relationship insert then failed, the
\* error is shown and the UserSport row is missing.
C8_Witness ==
    \E u \in Users, k \in CodeTexts :
        /\ <<u, k, k, "athlete">> \in step_ok
        /\ access_codes[k].used_by = u
        /\ pc[u] = "idle" /\ page[u] = "athlete"
        /\ cause[u] \in {"duplicate", "transient"} /\ error[u] = ErrJoin
        /\ ~HasSportOf(u, k)

\* C9: no step consumes a code through a page whose expected role differs
\* from the role of the code.
C9_MismatchedCodeUntouched ==
    [][\A k \in CodeTexts :
          access_codes'[k] # access_codes[k] =>
              /\ page[access_codes'[k].used_by] = "athlete"
                     => access_codes[k].role = "athlete"
              /\ page[access_codes'[k].used_by] = "coach"
                     => access_codes[k].role = "coach"]_vars

\* The messages that tell the caller the code is no longer available.
IsAlreadyUsed(m) == m \in {ErrUsed, ErrInvalidOrExpired}

\* The step is u's click on Verify (athlete page) or Submit (coach page).
Validates(u) ==
    /\ runs'[u] = runs[u] + 1
    /\ page[u] \in {"athlete", "coach"}
    /\ page'[u] = page[u]
    /\ page[u] = "athlete" => codeDetails'[u] = NoDetails

\* The text the validation of u's click looks up.
Looked(u) == IF page[u] = "athlete" THEN Trim(code'[u]) ELSE code'[u]

Redeems(u) ==
    /\ runs'[u] = runs[u] + 1
    /\ page[u] \in {"athlete", "coach"}
    /\ page'[u] = page[u]

\* The messages that tell the caller no code matches the text.
IsNotFound(m) == m \in {ErrInvalid, ErrInvalidOrExpired}

\* C11: a click on the athlete or coach page whose text matches no access
\* code, with the data service answering, ends the handler with the not-found
\* error and leaves every table unchanged.
C11_UnknownCodeRejected ==
    [][\A u \in Users :
          ( /\ Redeems(u)
            /\ Trim(Looked(u)) # ""
            /\ Looked(u) \notin DOMAIN access_codes
            /\ cause'[u] # "transient" )
          => /\ IsNotFound(error'[u])
             /\ pc'[u] = "idle"
             /\ db' = db]_vars

\* The step is a run of handle_new_user for u.
Bootstraps(u) == boot'[u].calls = boot[u].calls + 1

\* The last run of handle_new_user for u went through its retry loop.
Looped(u) == boot[u].calls > 0 /\ ~boot[u].found /\ ~boot[u].raised

\* C12: a run of handle_new_user for an identity that has a profile attempts
\* no insert and leaves every profile as it was, so the identity keeps its
\* one profile row.
C12_BootstrapIdempotent ==
    [][\A u \in Users :
          (Bootstraps(u) /\ profiles[u].exists)
          => /\ profiles' = profiles
             /\ boot'[u].found
             /\ boot'[u].attempts = 0
             /\ boot'[u].fallbacks = 0]_vars

\* C12 witness: handle_new_user ran again for an identity and found its
\* profile.
C12_Witness ==
    \E u \in Users :
        boot[u].calls >= 2 /\ boot[u].found /\ profiles[u].exists

\* C13 as stated: once handle_new_user has run for an identity, the identity
\* has a profile.
C13_ProfileAfterBootstrap ==
    \A u \in Users : (boot[u].calls > 0 /\ ~boot[u].raised) => profiles[u].exists

\* C13: when every attempt of the retry loop failed, handle_new_user made one
\* final attempt with the placeholder name; the identity has a profile exactly
\* when that attempt went through, and the profile then carries 'New User'.
C13_FallbackAfterRetries ==
    \A u \in Users :
        (Looped(u) /\ boot[u].success_at = 0)
        => /\ boot[u].fallbacks = 1
           /\ profiles[u].exists <=> boot[u].fallback_ok
           /\ boot[u].fallback_ok =>
                  /\ profiles[u].full_name = "New User"
                  /\ profiles[u].role = "athlete"

\* C13 witness: all attempts failed and the final attempt inserted the
\* minimal row.
C13_Witness ==
    \E u \in Users :
        /\ Looped(u) /\ boot[u].success_at = 0 /\ boot[u].fallback_ok
        /\ profiles[u].exists /\ profiles[u].full_name = "New User"

\* C14: a run of the retry loop makes at most max_retries attempts, stops at
\* the first attempt that succeeds, and makes the final attempt once, exactly
\* when max_retries attempts have failed.
C14_BoundedRetries ==
    \A u \in Users :
        Looped(u)
        => /\ boot[u].attempts \in 1..max_retries
           /\ boot[u].success_at # 0 =>
                  /\ boot[u].attempts = boot[u].success_at
                  /\ boot[u].fallbacks = 0
           /\ boot[u].success_at = 0 =>
                  /\ boot[u].attempts = max_retries
                  /\ boot[u].fallbacks = 1

\* C14 witness: a run whose attempts all failed.
C14_Witness ==
    \E u \in Users :
        /\ Looped(u) /\ boot[u].attempts = max_retries
        /\ boot[u].fallbacks = 1 /\ boot[u].success_at = 0

\* C15: no run of handle_new_user raises, whatever inserts failed, and the
\* identity it ran for exists.
C15_BootstrapNeverRaises ==
    \A u \in Users : boot[u].calls > 0 => (~boot[u].raised /\ u \in users)

\* C15 witness: every attempt and the final attempt failed, and the identity
\* was created without a profile.
C15_Witness ==
    \E u \in Users :
        /\ Looped(u) /\ boot[u].fallbacks = 1 /\ ~boot[u].fallback_ok
        /\ ~profiles[u].exists /\ u \in users

\* Row r of coach_athletes is backed by a consumed athlete code: used by the
\* athlete, issued by the coach, for the row's sport and organization.
BackedByCode(r) ==
    \E k \in CodeTexts :
        /\ access_codes[k].used_at # 0
        /\ access_codes[k].role = "athlete"
        /\ access_codes[k].used_by = r.athlete_id
        /\ access_codes[k].created_by = r.coach_id
        /\ access_codes[k].sport_id = r.sport_id
        /\ access_codes[k].organization_id = r.organization_id

\* C16: every coach_athletes row is backed by a consumed athlete code.
C16_RowsFromRedemption ==
    \A r \in BagToSet(coach_athletes) : BackedByCode(r)

\* The step ends u's handleSubmit with navigate('/coach').
CoachSucceeds(u) ==
    /\ pc[u] \in {"c_mark", "c_sport"}
    /\ pc'[u] = "idle"
    /\ landed'[u] = "/coach"

\* C17: when handleSubmit reports success for the code it validated, the
\* coach's profile carries the code's organization and the code is consumed
\* with used_by the coach.
C17_CoachSuccessComplete ==
    [][\A u \in Users :
          CoachSucceeds(u) =>
              /\ profiles'[u].organization_id = row[u].organization_id
              /\ access_codes'[row[u].code].used_at # 0
              /\ access_codes'[row[u].code].used_by = u]_vars

\* The step of u is a data-service write that failed: a write of handleJoin
\* or the profile update of handleSubmit (their errors reach cause), a code
\* update that matched a row and changed none, a user_sports insert that added
\* none, or a profile update of handleSignUp that changed no field it set.
WriteFailed(u) ==
    \/ /\ pc[u] \in {"j_connect", "j_sport", "c_profile"}
       /\ pc'[u] # pc[u]
       /\ cause'[u] # "none"
    \/ /\ Redeems(u) /\ page[u] = "athlete"
       /\ codeDetails'[u] # NoDetails
       /\ cause'[u] # "none"
    \/ /\ pc[u] = "c_mark" /\ pc'[u] # pc[u]
       /\ UpdateMatches(access_codes, code[u])
       /\ access_codes' = access_codes
    \/ /\ pc[u] = "s_mark" /\ pc'[u] # pc[u]
       /\ UpdateMatches(access_codes, Trim(code[u]))
       /\ access_codes' = access_codes
    \/ /\ pc[u] \in {"c_sport", "s_sport"} /\ pc'[u] # pc[u]
       /\ user_sports' = user_sports
    \/ /\ pc[u] = "s_profile" /\ pc'[u] # pc[u]
       /\ profiles[u].exists
       /\ profiles[u] # UpdateProfile(profiles, u, row[u].role,
                                      row[u].organization_id)[u]
       /\ profiles' = profiles

\* C18: a failed write of a redemption or sign-up handler ends the handler
\* with an error message shown and without navigating.
C18_FailuresSurface ==
    [][\A u \in Users :
          WriteFailed(u) =>
              /\ error'[u] # NULL
              /\ pc'[u] = "idle"
              /\ landed'[u] = NULL]_vars

\* C19: every generated access code is unused and carries a granted role,
\* its issuer as creator and the issuer's organization.
C19_GeneratedCodesScoped ==
    \A g \in DOMAIN access_codes \ CodeTexts :
        /\ access_codes[g].used_at = 0
        /\ access_codes[g].used_by = NULL
        /\ access_codes[g].role \in RoleTypes
        /\ access_codes[g].created_by \in users
        /\ access_codes[g].organization_id # NULL
        /\ access_codes[g].organization_id =
               profiles[access_codes[g].created_by].organization_id

\* Number of user_sports rows holding the triple of r.
SportRowsWithKey(r) ==
    BagCardinality([x \in {y \in BagToSet(user_sports) :
                              UserSportKey(y) = UserSportKey(r)}
                      |-> user_sports[x]])

\* C20: after any sequence of redemptions, sign-ups and add-sport and
\* remove-sport operations, no (user, sport, organization) triple is held by
\* more than one user_sports row.
C20_OneSportRowPerTriple ==
    \A r \in BagToSet(user_sports) : SportRowsWithKey(r) = 1

\* A user who got a sport by redeeming a code asks the Settings page for it
\* again and is refused, the one row staying.
C20_Witness ==
    \E u \in Users, sport \in Sports :
        /\ page[u] = "settings"
        /\ error[u] = ErrUpdateSport /\ cause[u] = "duplicate"
        /\ landed[u] # NULL
        /\ sport \notin selectedSports[u]
        /\ \E r \in BagToSet(user_sports) :
               /\ UserSportKey(r) = <<u, sport, profiles[u].organization_id>>
               /\ SportRowsWithKey(r) = 1

\* The codes whose consumption fields a step writes.
Consumed(k) ==
    \/ access_codes'[k].used_at # access_codes[k].used_at
    \/ access_codes'[k].used_by # access_codes[k].used_by

\* C21: a redemption step marks one access code, the one whose text the
\* redeemer submitted, and leaves used_at and used_by of every other access
\* code as they were.
C21_OneCodePerRedemption ==
    [][\A k \in CodeTexts :
          Consumed(k) =>
              /\ \E u \in Users : /\ Trim(code'[u]) = k
                                  /\ access_codes'[k].used_by = u
              /\ \A j \in CodeTexts \ {k} : ~Consumed(j)]_vars

\* Code K1 has been consumed by a redemption while code K2 is as issued.
C21_Witness ==
    /\ first_used_by["K1"] # NULL
    /\ access_codes["K1"].used_at # 0
    /\ access_codes["K2"].used_at = 0
    /\ access_codes["K2"].used_by = NULL

\* C22: whatever bootstrap, role selection, setRole and sign-up with a code
\* did, the role of every profile is admin, coach, athlete or unset.
C22_RoleInClosedSet ==
    \A u \in Users : profiles[u].role \in {"admin", "coach", "athlete", NULL}

\* A user who signed up, and so was bootstrapped, took another role on the
\* RoleSelection page, and setRole has written it.
C22_Witness ==
    \E u \in Users :
        /\ boot[u].calls > 0
        /\ page[u] = "roleselection" /\ landed[u] = "/admin"
        /\ profiles[u].role = "admin" /\ store[u].role = "admin"
        /\ setting[u] = {}

\* The step is a write of redeemer u, after the validation of its handler,
\* to coach_athletes, user_sports or the organization of u's profile.
GrantWrite(u) ==
    /\ pc[u] \in {"j_connect", "j_sport", "c_profile", "c_sport", "s_profile",
                  "s_sport"}
    /\ pc'[u] # pc[u]
    /\ \/ coach_athletes' # coach_athletes
       \/ user_sports' # user_sports
       \/ profiles'[u].organization_id # profiles[u].organization_id

\* The code-update step of u on the code u validated has gone through and
\* the code is consumed by u.
OwnUpdateDone(u) ==
    LET k == IF pc[u] \in {"j_connect", "j_sport"} THEN codeDetails[u].code
             ELSE row[u].code
    IN  /\ \E e \in step_ok : e[1] = u /\ e[2] = k /\ e[3] = k
        /\ access_codes[k].used_by = u

\* C23: in the athlete, coach and sign-up flows no coach_athletes, user_sports
\* or profile-organization write of a redeemer happens before the redeemer's
\* own code-update step has succeeded.
C23_WritesAfterCodeUpdate ==
    [][\A u \in Users : GrantWrite(u) => OwnUpdateDone(u)]_vars

\* The step is an insert of handleJoin for athlete u that adds a row.
JoinInserts(u) ==
    /\ pc[u] \in {"j_connect", "j_sport"}
    /\ \/ coach_athletes' # coach_athletes
       \/ user_sports' # user_sports

\* C24: the rows handleJoin creates come from the code its own update marked
\* consumed: the text the update consumed is the code whose validated details
\* the inserts use, also when the input was edited between Verify and Join.
C24_RowsFromConsumedCode ==
    [][\A u \in Users :
          JoinInserts(u) =>
              /\ Trim(code[u]) = codeDetails[u].code
              /\ access_codes[codeDetails[u].code].used_by = u]_vars

\* Athlete u holds a coach_athletes row for coach, sport and organization of
\* the access code that u's validateCode has fetched.
LinkedAsCode(u) ==
    \E x \in BagToSet(coach_athletes) :
        /\ x.athlete_id = u
        /\ x.coach_id = row[u].coach_id
        /\ x.sport_id = row[u].sport_id
        /\ x.organization_id = row[u].organization_id

RoleLessAtRoleSelection ==
    /\ store[Me].user # NULL
    /\ store[Me].role = NULL
    /\ location = "/roleselection"

\* C25: a signed-in user without a role who is at /roleselection gets the
\* RoleSelection page rendered, unless the user leaves or the store changes
\* first: the guard of the route does not redirect to /roleselection forever.
C25_RoleSelectionRenders ==
    RoleLessAtRoleSelection ~>
        (view = "RoleSelection" \/ ~RoleLessAtRoleSelection)

\* A step in which the router rendered something for the location.
RouterStep == <<view', location'>> # <<view, location>> /\ view' # "none"

\* What the claim allows a guard requiring role R to come to, for store st:
\* its children only with a user whose role is R, and once the loading is
\* over /login without a user, /roleselection without a role, the dashboard
\* of the role when it is another one, else the children.
GuardOutcome(st, R, children, loading, e) ==
    /\ e.shows = children => st.user # NULL /\ st.role = R
    /\ ~loading /\ st.user = NULL => e = RedirectTo("/login")
    /\ ~loading /\ st.user # NULL /\ st.role = NULL
         => e = RedirectTo("/roleselection")
    /\ ~loading /\ st.user # NULL /\ st.role \notin {NULL, R}
         => e = RedirectTo("/" \o st.role)
    /\ ~loading /\ st.user # NULL /\ st.role = R => e = Shows(children)

\* C26: a route guard with a required role R renders its children only when
\* the store holds a user whose role is R; without a user it redirects to
\* /login, without a role to /roleselection, and with another role to the
\* dashboard of that role. Both guards: the one of App and the component.
C26_GuardByRole ==
    [][ /\ \A R \in {"admin", "coach", "athlete"} :
             location = "/" \o R /\ RouterStep =>
                 GuardOutcome(store[Me], R, Children(location),
                              store[Me].loading,
                              [to |-> IF location' # location THEN location'
                                      ELSE NULL,
                               shows |-> view'])
        /\ checked'.requiredRole # NULL =>
                 GuardOutcome(store'[Me], checked'.requiredRole,
                              checked'.children, checked'.isLoading,
                              CheckedElement')
      ]_vars

\* The guard of App has let a coach through to the coach dashboard and the
\* component, requiring an athlete, has turned that coach away to /coach.
C26_Witness ==
    /\ location = "/coach" /\ view = "CoachDashboard"
    /\ store[Me].role = "coach" /\ store[Me].user = Me
    /\ checked.requiredRole = "athlete"
    /\ CheckedElement = RedirectTo("/coach")

\* C28: in the auth store, after any sequence of setUser, setRole,
\* setOrganizationId, signOut, checkSession and initializeAuth calls, whenever
\* user is null then role and organizationId are null as well.
C28_NoUserNoRole ==
    store[Me].user = NULL =>
        store[Me].role = NULL /\ store[Me].organizationId = NULL

C29_EveryConfirmResolved ==
    \A p \in 1..MaxConfirms :
        (promises[p] = "pending") ~> (promises[p] \in {"true", "false"})
====
